---- MODULE Spec2Model ----
(***************************************************************************)
(* The DOT-style grammar engine of simpledot (src/ir.rs, src/attribute.rs) *)
(* as a state machine: one grammar rule is applied to one text and its     *)
(* result is recorded.                                                     *)
(*                                                                         *)
(* A text is a sequence of Unicode code points (34 is the double quote,    *)
(* 92 the backslash, 32 the space).  A rule's result is a record           *)
(*   [variant, rest, out, errors]                                          *)
(* variant "Ok" is nom's Ok((rest, out)); variant "Error" is               *)
(* Err(nom::Err::Error(VerboseError { errors })); "Failure" and            *)
(* "Incomplete" are nom's two other error variants.  An entry of errors is *)
(* [at, variant, kind, ch]: the input slice the entry was recorded at and  *)
(* VerboseErrorKind::Nom(kind) or VerboseErrorKind::Char(ch).              *)
(*                                                                         *)
(* A combinator that runs rules in sequence takes the results of its       *)
(* parts, each computed at the remainder of the one before; many0, many1   *)
(* and separated_list1 are written out once for each rule they repeat.     *)
(* The({e : x \in {v}}) is e with x bound to the value of v.               *)
(***************************************************************************)
EXTENDS Integers, Sequences, FiniteSets, TLC

VARIABLES input, rule, res

vars == <<input, rule, res>>

-----------------------------------------------------------------------------
(* Slices of a text *)

Take(s, n) == SubSeq(s, 1, n)

Drop(s, n) == SubSeq(s, n + 1, Len(s))

StartsWith(s, t) == Len(s) >= Len(t) /\ SubSeq(s, 1, Len(t)) = t

SetMin(S) == CHOOSE m \in S : \A n \in S : m <= n

SetMax(S) == CHOOSE m \in S : \A n \in S : n <= m

The(S) == CHOOSE v \in S : TRUE

-----------------------------------------------------------------------------
(* nom::IResult with nom::error::VerboseError *)

NoOut == <<>>

Ok(rest, out) == [variant |-> "Ok", rest |-> rest, out |-> out, errors |-> <<>>]

Err(errors) == [variant |-> "Error", rest |-> <<>>, out |-> NoOut, errors |-> errors]

from_error_kind(i, kind) == <<[at |-> i, variant |-> "Nom", kind |-> kind, ch |-> 0]>>

from_char(i, c) == <<[at |-> i, variant |-> "Char", kind |-> "none", ch |-> c]>>

append(i, kind, other) == Append(other, [at |-> i, variant |-> "Nom", kind |-> kind, ch |-> 0])

\* VerboseError does not override ParseError::or: the later error replaces the earlier
error_or(self, other) == other

-----------------------------------------------------------------------------
(* nom's character classes and token parsers (the `complete` flavours) *)

AlphaChars == (65..90) \cup (97..122)

DigitChars == 48..57

AlphaNumChars == AlphaChars \cup DigitChars

\* number of leading characters of i that are in chars
SpanLen(chars, i) ==
  IF \A k \in 1..Len(i) : i[k] \in chars THEN Len(i)
  ELSE SetMin({k \in 1..Len(i) : i[k] \notin chars}) - 1

take_while1(chars, kind, i) ==
  The({IF n = 0 THEN Err(from_error_kind(i, kind)) ELSE Ok(Drop(i, n), Take(i, n)) :
       n \in {SpanLen(chars, i)}})

take_while0(chars, i) == The({Ok(Drop(i, n), Take(i, n)) : n \in {SpanLen(chars, i)}})

alpha1(i) == take_while1(AlphaChars, "Alpha", i)

alphanumeric1(i) == take_while1(AlphaNumChars, "AlphaNumeric", i)

digit1(i) == take_while1(DigitChars, "Digit", i)

digit0(i) == take_while0(DigitChars, i)

tag(t, i) ==
  IF StartsWith(i, t) THEN Ok(Drop(i, Len(t)), t) ELSE Err(from_error_kind(i, "Tag"))

char(c, i) ==
  IF i # <<>> /\ i[1] = c THEN Ok(Tail(i), c) ELSE Err(from_char(i, c))

\* offset of the first occurrence of t in i, -1 when there is none
find_substring(i, t) ==
  IF \E k \in 0..Len(i) : StartsWith(Drop(i, k), t)
    THEN SetMin({k \in 0..Len(i) : StartsWith(Drop(i, k), t)})
    ELSE -1

take_until1(t, i) ==
  The({IF index = -1 \/ index = 0
         THEN Err(from_error_kind(i, "TakeUntil"))
         ELSE Ok(Drop(i, index), Take(i, index)) :
       index \in {find_substring(i, t)}})

-----------------------------------------------------------------------------
(* nom's combinators *)

RECURSIVE alt_error(_, _)
alt_error(rs, k) ==
  IF k = 1 THEN rs[1].errors ELSE error_or(alt_error(rs, k - 1), rs[k].errors)

\* rs: the results of the alternatives at i, in order
alt(rs, i) ==
  IF \E k \in 1..Len(rs) : rs[k].variant # "Error"
    THEN rs[SetMin({k \in 1..Len(rs) : rs[k].variant # "Error"})]
    ELSE Err(append(i, "Alt", alt_error(rs, Len(rs))))

\* out: the closure's value on r.out
map(r, out) == IF r.variant = "Ok" THEN [r EXCEPT !.out = out] ELSE r

value(v, r) == IF r.variant = "Ok" THEN [r EXCEPT !.out = v] ELSE r

\* Option: None is <<>>, Some(x) is <<x>>
opt(r, i) ==
  IF r.variant = "Ok" THEN Ok(r.rest, <<r.out>>)
  ELSE IF r.variant = "Error" THEN Ok(i, <<>>)
  ELSE r

unwrap_or(o, default) == IF o = <<>> THEN default ELSE o[1]

recognize(r, i) ==
  IF r.variant = "Ok" THEN Ok(r.rest, Take(i, Len(i) - Len(r.rest))) ELSE r

pair(a, b) ==
  IF a.variant # "Ok" THEN a
  ELSE IF b.variant # "Ok" THEN b
  ELSE Ok(b.rest, <<a.out, b.out>>)

tuple3(a, b, c) ==
  IF a.variant # "Ok" THEN a
  ELSE IF b.variant # "Ok" THEN b
  ELSE IF c.variant # "Ok" THEN c
  ELSE Ok(c.rest, <<a.out, b.out, c.out>>)

tuple4(a, b, c, d) ==
  IF a.variant # "Ok" THEN a
  ELSE IF b.variant # "Ok" THEN b
  ELSE IF c.variant # "Ok" THEN c
  ELSE IF d.variant # "Ok" THEN d
  ELSE Ok(d.rest, <<a.out, b.out, c.out, d.out>>)

delimited(a, b, c) ==
  IF a.variant # "Ok" THEN a
  ELSE IF b.variant # "Ok" THEN b
  ELSE IF c.variant # "Ok" THEN c
  ELSE Ok(c.rest, b.out)

separated_pair(a, s, b) ==
  IF a.variant # "Ok" THEN a
  ELSE IF s.variant # "Ok" THEN s
  ELSE IF b.variant # "Ok" THEN b
  ELSE Ok(b.rest, <<a.out, b.out>>)

\* many1 on the failure of its first application
many1_first(i, first) ==
  IF first.variant = "Error" THEN Err(append(i, "Many1", first.errors)) ELSE first

\* v.join("") and drain(..).flatten()
RECURSIVE Join(_)
Join(v) == IF v = <<>> THEN <<>> ELSE Head(v) \o Join(Tail(v))

-----------------------------------------------------------------------------
(* crate::ws::ws: skip insignificant whitespace before and after a rule.    *)
(* ws(inner)(i) is ws(r) for r the result of inner at ws_skip(i).           *)

MultispaceChars == {32, 9, 13, 10}

ws_skip(i) == Drop(i, SpanLen(MultispaceChars, i))

ws(r) == IF r.variant = "Ok" THEN [r EXCEPT !.rest = ws_skip(r.rest)] ELSE r

-----------------------------------------------------------------------------
(* src/ir.rs: the identifier grammar *)

HighbitChars == 128..255

highbit(i) == take_while1(HighbitChars, "TakeWhile1", i)

start_char(i) == alt(<<alpha1(i), highbit(i), tag(<<95>>, i)>>, i)

continue_char_no_digit(i) == alt(<<alpha1(i), highbit(i), tag(<<95>>, i)>>, i)

continue_char(i) == alt(<<alphanumeric1(i), highbit(i), tag(<<95>>, i)>>, i)

\* many0(continue_char)
RECURSIVE many0_continue_char(_, _)
many0_continue_char(i, acc) ==
  The({IF r.variant = "Error" THEN Ok(i, acc)
       ELSE IF r.variant # "Ok" THEN r
       ELSE IF Len(r.rest) = Len(i) THEN Err(from_error_kind(i, "Many0"))
       ELSE many0_continue_char(r.rest, Append(acc, r.out)) :
       r \in {continue_char(i)}})

string_ident_parser(i) ==
  The({recognize(pair(start, many0_continue_char(start.rest, <<>>)), i) :
       start \in {start_char(i)}})

num_ident_parser(i) ==
  The({The({The({
    recognize(tuple4(sign, int, point, digit0(point.rest)), i) :
    point \in {tag(<<46>>, int.rest)}}) :
    int \in {digit1(sign.rest)}}) :
    sign \in {opt(tag(<<45>>, i), i)}})

escaped_quote(i) == value(<<34>>, tag(<<92, 34>>, i))

\* string_fragment with take_until in place of the second take_until1
string_fragment_may_be_empty(i) ==
  alt(<<take_until1(<<92, 34>>, i),
        The({IF index = -1
               THEN Err(from_error_kind(i, "TakeUntil"))
               ELSE Ok(Drop(i, index), Take(i, index)) :
             index \in {find_substring(i, <<34>>)}})>>, i)

string_fragment(i) == alt(<<take_until1(<<92, 34>>, i), take_until1(<<34>>, i)>>, i)

quote_string_fragment_parser(i) == alt(<<escaped_quote(i), string_fragment(i)>>, i)

\* many0(quote_string_fragment_parser)
RECURSIVE many0_fragment(_, _)
many0_fragment(i, acc) ==
  The({IF r.variant = "Error" THEN Ok(i, acc)
       ELSE IF r.variant # "Ok" THEN r
       ELSE IF Len(r.rest) = Len(i) THEN Err(from_error_kind(i, "Many0"))
       ELSE many0_fragment(r.rest, Append(acc, r.out)) :
       r \in {quote_string_fragment_parser(i)}})

\* map(many0(quote_string_fragment_parser), |v| v.join(""))
quote_string_text(i) ==
  The({map(fragments, Join(fragments.out)) : fragments \in {many0_fragment(i, <<>>)}})

\* the commented-out loop of ir.rs:120-140: the text ends where no fragment matches
quote_string_ident_parser_soft(i) ==
  The({The({
    delimited(open, text, opt(char(34, text.rest), text.rest)) :
    text \in {quote_string_text(open.rest)}}) :
    open \in {char(34, i)}})

quote_string_ident_parser(i) ==
  The({The({
    delimited(open, text, char(34, text.rest)) :
    text \in {quote_string_text(open.rest)}}) :
    open \in {char(34, i)}})

ident_parser(i) ==
  alt(<<string_ident_parser(i), num_ident_parser(i), quote_string_ident_parser(i)>>, i)

-----------------------------------------------------------------------------
(* src/attribute.rs: the attribute grammar *)

\* the keyword table of shape_parser
ShapeKeywords ==
  << <<<<98, 111, 120>>, "Box">>,
     <<<<112, 111, 108, 121, 103, 111, 110>>, "Polygon">>,
     <<<<101, 108, 108, 105, 112, 115, 101>>, "Ellipse">>,
     <<<<111, 118, 97, 108>>, "Oval">>,
     <<<<99, 105, 114, 99, 108, 101>>, "Circle">>,
     <<<<112, 111, 105, 110, 116>>, "Point">> >>

\* the keyword table of style_parser
StyleKeywords ==
  << <<<<100, 97, 115, 104, 101, 100>>, "Dashed">>,
     <<<<100, 111, 116, 116, 101, 100>>, "Dotted">>,
     <<<<115, 111, 108, 105, 100>>, "Solid">>,
     <<<<105, 110, 118, 105, 115>>, "Invis">>,
     <<<<98, 111, 108, 100>>, "Bold">>,
     <<<<116, 97, 112, 101, 114, 101, 100>>, "Tapered">>,
     <<<<102, 105, 108, 108, 101, 100>>, "Filled">>,
     <<<<115, 116, 114, 105, 112, 101, 100>>, "Striped">>,
     <<<<119, 101, 100, 103, 101, 100>>, "Wedged">>,
     <<<<100, 105, 97, 103, 111, 110, 97, 108, 115>>, "Diagonals">>,
     <<<<114, 111, 117, 110, 100, 101, 100>>, "Rounded">> >>

\* alt((tag(k1).map(|_| V1), tag(k2).map(|_| V2), ...))
keyword_alt(table, i) ==
  alt([k \in 1..Len(table) |-> value(table[k][2], tag(table[k][1], i))], i)

shape_parser(i) == ws(keyword_alt(ShapeKeywords, ws_skip(i)))

style_parser(i) == ws(keyword_alt(StyleKeywords, ws_skip(i)))

\* separated_list1(char(','), style_parser), after the first element
RECURSIVE separated_styles(_, _)
separated_styles(i, acc) ==
  The({IF s.variant = "Error" THEN Ok(i, acc)
       ELSE IF s.variant # "Ok" THEN s
       ELSE IF Len(s.rest) = Len(i) THEN Err(from_error_kind(s.rest, "SeparatedList"))
       ELSE The({IF r.variant = "Error" THEN Ok(i, acc)
                 ELSE IF r.variant # "Ok" THEN r
                 ELSE separated_styles(r.rest, Append(acc, r.out)) :
                 r \in {style_parser(s.rest)}}) :
       s \in {char(44, i)}})

styles_parser(i) ==
  The({IF first.variant # "Ok" THEN first
       ELSE separated_styles(first.rest, <<first.out>>) :
       first \in {style_parser(i)}})

\* Attribute::Style(Vec<Style>)
style_attribute(i) ==
  The({The({The({
    map(r, [name |-> "Style", value |-> r.out[2]]) :
    r \in {separated_pair(name, eq, ws(styles_parser(ws_skip(eq.rest))))}}) :
    eq \in {char(61, name.rest)}}) :
    name \in {ws(tag(<<115, 116, 121, 108, 101>>, ws_skip(i)))}})

\* Attribute::Shape(Shape), the Shape held as a one-element sequence
shape_attribute(i) ==
  The({The({The({
    map(r, [name |-> "Shape", value |-> <<r.out[2]>>]) :
    r \in {separated_pair(name, eq, ws(shape_parser(ws_skip(eq.rest))))}}) :
    eq \in {char(61, name.rest)}}) :
    name \in {ws(tag(<<115, 104, 97, 112, 101>>, ws_skip(i)))}})

\* ws(alt((char(','), char(';'))))
attribute_separator(i) ==
  ws(alt(<<char(44, ws_skip(i)), char(59, ws_skip(i))>>, ws_skip(i)))

\* attribute_parser with a third alternative that accepts any other name = word
\* and yields an attribute without values
attribute_parser_skip_unknown(i) ==
  The({The({
    map(r, r.out[1]) :
    r \in {pair(attr, opt(attribute_separator(attr.rest), attr.rest))}}) :
    attr \in {alt(<<style_attribute(i), shape_attribute(i),
                    The({The({
                      value([name |-> "Unknown", value |-> <<>>],
                            separated_pair(name, eq, ws(alpha1(ws_skip(eq.rest))))) :
                      eq \in {char(61, name.rest)}}) :
                      name \in {ws(alpha1(ws_skip(i)))}})>>, i)}})

attribute_parser(i) ==
  The({The({
    map(r, r.out[1]) :
    r \in {pair(attr, opt(attribute_separator(attr.rest), attr.rest))}}) :
    attr \in {alt(<<style_attribute(i), shape_attribute(i)>>, i)}})

-----------------------------------------------------------------------------
(* src/ir.rs: attribute lists, statements, the graph *)

\* many1(attribute_parser), after the first attribute
RECURSIVE many1_attribute(_, _)
many1_attribute(i, acc) ==
  The({IF r.variant = "Error" THEN Ok(i, acc)
       ELSE IF r.variant # "Ok" THEN r
       ELSE IF Len(r.rest) = Len(i) THEN Err(from_error_kind(i, "Many1"))
       ELSE many1_attribute(r.rest, Append(acc, r.out)) :
       r \in {attribute_parser(i)}})

a_list_parser(i) ==
  The({IF first.variant # "Ok" THEN many1_first(i, first)
       ELSE many1_attribute(first.rest, <<first.out>>) :
       first \in {attribute_parser(i)}})

\* ws(delimited(char('['), ws(a_list_parser), char(']')))
attr_group(i) ==
  The({The({
    ws(delimited(open, list, char(93, list.rest))) :
    list \in {ws(a_list_parser(ws_skip(open.rest)))}}) :
    open \in {char(91, ws_skip(i))}})

\* many1(attr_group), after the first group
RECURSIVE many1_attr_group(_, _)
many1_attr_group(i, acc) ==
  The({IF r.variant = "Error" THEN Ok(i, acc)
       ELSE IF r.variant # "Ok" THEN r
       ELSE IF Len(r.rest) = Len(i) THEN Err(from_error_kind(i, "Many1"))
       ELSE many1_attr_group(r.rest, Append(acc, r.out)) :
       r \in {attr_group(i)}})

\* many1(ws(delimited(..)))(input)?
attr_groups(i) ==
  The({IF first.variant # "Ok" THEN many1_first(i, first)
       ELSE many1_attr_group(first.rest, <<first.out>>) :
       first \in {attr_group(i)}})

attr_list_parser(i) == The({map(lists, Join(lists.out)) : lists \in {attr_groups(i)}})

\* pair(ws(alt((tag("--"), tag("->")))), ws(ident_parser))
edge_rhs(i) ==
  The({pair(op, ws(ident_parser(ws_skip(op.rest)))) :
       op \in {ws(alt(<<tag(<<45, 45>>, ws_skip(i)), tag(<<45, 62>>, ws_skip(i))>>,
                      ws_skip(i)))}})

\* many1(edge_rhs), after the first pair
RECURSIVE many1_edge_rhs(_, _)
many1_edge_rhs(i, acc) ==
  The({IF r.variant = "Error" THEN Ok(i, acc)
       ELSE IF r.variant # "Ok" THEN r
       ELSE IF Len(r.rest) = Len(i) THEN Err(from_error_kind(i, "Many1"))
       ELSE many1_edge_rhs(r.rest, Append(acc, r.out)) :
       r \in {edge_rhs(i)}})

\* many1(pair(..))
edge_rhs_list(i) ==
  The({IF first.variant # "Ok" THEN many1_first(i, first)
       ELSE many1_edge_rhs(first.rest, <<first.out>>) :
       first \in {edge_rhs(i)}})

edge_statement_parser(i) ==
  The({The({The({
    map(r, [list |-> <<r.out[1]>> \o [k \in 1..Len(r.out[2]) |-> r.out[2][k][2]],
            attributes |-> unwrap_or(r.out[3], <<>>)]) :
    r \in {tuple3(id, rhs_list, opt(attr_list_parser(rhs_list.rest), rhs_list.rest))}}) :
    rhs_list \in {edge_rhs_list(id.rest)}}) :
    id \in {ws(ident_parser(ws_skip(i)))}})

node_statement_parser(i) ==
  The({The({
    map(r, [name |-> r.out[1], attributes |-> unwrap_or(r.out[2], <<>>)]) :
    r \in {pair(id, opt(attr_list_parser(id.rest), id.rest))}}) :
    id \in {ws(ident_parser(ws_skip(i)))}})

AttributeKinds ==
  << <<<<103, 114, 97, 112, 104>>, "Graph">>,
     <<<<110, 111, 100, 101>>, "Node">>,
     <<<<101, 100, 103, 101>>, "Edge">> >>

attribute_statement_parser(i) ==
  The({The({
    map(r, [kind |-> r.out[1], attributes |-> r.out[2]]) :
    r \in {pair(kind, attr_list_parser(kind.rest))}}) :
    kind \in {ws(keyword_alt(AttributeKinds, ws_skip(i)))}})

definition_statement_parser(i) ==
  The({The({The({
    map(r, [lhs |-> r.out[1], rhs |-> r.out[2]]) :
    r \in {separated_pair(lhs, eq, ws(ident_parser(ws_skip(eq.rest))))}}) :
    eq \in {char(61, lhs.rest)}}) :
    lhs \in {ws(ident_parser(ws_skip(i)))}})

\* parser.map(|s| Statement::Variant(s)): a Statement is [type, stmt]
statement_of(type, r) == map(r, [type |-> type, stmt |-> r.out])

statement_alternatives(i) ==
  alt(<<statement_of("Edge", edge_statement_parser(i)),
        statement_of("Node", node_statement_parser(i)),
        statement_of("Definition", definition_statement_parser(i)),
        statement_of("Attribute", attribute_statement_parser(i))>>, i)

statement_parser(i) == ws(statement_alternatives(ws_skip(i)))

\* many0(statement_parser)
RECURSIVE many0_statement(_, _)
many0_statement(i, acc) ==
  The({IF r.variant = "Error" THEN Ok(i, acc)
       ELSE IF r.variant # "Ok" THEN r
       ELSE IF Len(r.rest) = Len(i) THEN Err(from_error_kind(i, "Many0"))
       ELSE many0_statement(r.rest, Append(acc, r.out)) :
       r \in {statement_parser(i)}})

statements_parser(i) == many0_statement(i, <<>>)

GraphKinds ==
  << <<<<103, 114, 97, 112, 104>>, "Undirected">>,
     <<<<100, 105, 103, 114, 97, 112, 104>>, "Directed">> >>

\* delimited(ws(char('{')), statements_parser, ws(char('}')))
graph_body(i) ==
  The({The({
    delimited(open, statements, ws(char(125, ws_skip(statements.rest)))) :
    statements \in {statements_parser(open.rest)}}) :
    open \in {ws(char(123, ws_skip(i)))}})

graph_parser(i) ==
  The({The({The({
    map(r, [kind |-> r.out[2], strict |-> r.out[1] # <<>>, statements |-> r.out[3]]) :
    r \in {tuple3(strict, graph_kind, graph_body(graph_kind.rest))}}) :
    graph_kind \in {ws(keyword_alt(GraphKinds, ws_skip(strict.rest)))}}) :
    strict \in {ws(opt(tag(<<115, 116, 114, 105, 99, 116>>, ws_skip(i)), ws_skip(i)))}})

\* char::is_whitespace: the Unicode White_Space property
WhiteSpaceChars ==
  (9..13) \cup {32, 133, 160, 5760, 8232, 8233, 8239, 8287, 12288} \cup (8192..8202)

\* str::trim
trim(s) ==
  IF \A k \in 1..Len(s) : s[k] \in WhiteSpaceChars THEN <<>>
  ELSE SubSeq(s, SetMin({k \in 1..Len(s) : s[k] \notin WhiteSpaceChars}),
                 SetMax({k \in 1..Len(s) : s[k] \notin WhiteSpaceChars}))

\* Result<Graph, GraphParseError>: kind is "Graph" for Ok(graph), else the error's variant
GraphOk(graph) == [kind |-> "Graph", graph |-> graph, rest |-> <<>>, errors |-> <<>>]

GraphErr(kind, rest, errors) == [kind |-> kind, graph |-> <<>>, rest |-> rest, errors |-> errors]

\* the match of parse_graph without the check of the text left over
graph_result_no_rest_check(r) ==
  IF r.variant = "Ok" THEN GraphOk(r.out)
  ELSE IF r.variant = "Incomplete" THEN GraphErr("UnexpectedEof", <<>>, <<>>)
  ELSE GraphErr("ParseError", <<>>, r.errors)

\* the match of parse_graph on the result of graph_parser
graph_result(r) ==
  IF r.variant = "Ok"
    THEN IF trim(r.rest) # <<>>
           THEN GraphErr("UnexpectedInput", r.rest, <<>>)
           ELSE GraphOk(r.out)
  ELSE IF r.variant = "Incomplete" THEN GraphErr("UnexpectedEof", <<>>, <<>>)
  ELSE GraphErr("ParseError", <<>>, r.errors)

parse_graph(i) == graph_result(graph_parser(i))

-----------------------------------------------------------------------------
(* Texts the rules are applied to *)

MaxLexLen == 4

MaxTokens == 3

MaxChain == 2

MaxBodyTokens == 1

\* a  5  _  e-acute  -  .  "  \
LexChars == {97, 53, 95, 233, 45, 46, 34, 92}

LexInputs == UNION {[1..n -> LexChars] : n \in 0..MaxLexLen}

\* the texts of the unit tests of ir.rs (tests::valid_string_idents,
\* invalid_string_idents, expected_rest_string_idents, valid_quoted_string_idents,
\* quoted_ident)
TxtFoo == <<102, 111, 111>>
TxtHowdyThere == <<72, 111, 119, 100, 121, 95, 116, 104, 101, 114, 101>>
TxtSoIsThis == <<95, 115, 111, 95, 105, 115, 95, 116, 104, 105, 115>>
TxtCantStartWithNumber == <<53, 99, 97, 110, 116, 115, 116, 97, 114, 116, 119, 105, 116, 104, 110, 117, 109, 98, 101, 114>>
TxtNoKebabCase == <<110, 111, 45, 107, 101, 98, 97, 98, 45, 99, 97, 115, 101>>
TxtNo == <<110, 111>>
TxtKebabRest == <<45, 107, 101, 98, 97, 98, 45, 99, 97, 115, 101>>
TxtQuotedFoo == <<34, 102, 111, 111, 34>>
TxtQuotedFooBar == <<34, 102, 111, 111, 92, 34, 98, 97, 114, 34>>
TxtQuotedEmpty == <<34, 34>>
TxtMissingEndingQuote == <<34, 109, 105, 115, 115, 105, 110, 103, 32, 101, 110, 100, 105, 110, 103, 32, 113, 117, 111, 116, 101>>
\* "a" -- "b\"c"
TxtQuotedEdge == <<34, 97, 34, 32, 45, 45, 32, 34, 98, 92, 34, 99, 34>>

LexTests ==
  {TxtFoo, TxtHowdyThere, TxtSoIsThis, TxtCantStartWithNumber, TxtNoKebabCase,
   TxtQuotedFoo, TxtQuotedFooBar, TxtQuotedEmpty, TxtMissingEndingQuote, TxtQuotedEdge}

\* identifier tokens with the identifier each denotes:
\* a   1.5   "a"   "b\"c"
IdTokens ==
  {[text |-> <<97>>, ident |-> <<97>>],
   [text |-> <<49, 46, 53>>, ident |-> <<49, 46, 53>>],
   [text |-> <<34, 97, 34>>, ident |-> <<97>>],
   [text |-> <<34, 98, 92, 34, 99, 34>>, ident |-> <<98, 34, 99>>]}

\* --  ->
EdgeOps == {<<45, 45>>, <<45, 62>>}

\* bracketed attribute lists with the attributes each denotes:
\* [style=dashed,bold]   [shape=box]   [style=bold; shape=oval][style=dotted]
AttrLists ==
  {[text |-> <<91, 115, 116, 121, 108, 101, 61, 100, 97, 115, 104, 101, 100, 44, 98, 111, 108, 100, 93>>,
    attributes |-> <<[name |-> "Style", value |-> <<"Dashed", "Bold">>]>>],
   [text |-> <<91, 115, 104, 97, 112, 101, 61, 98, 111, 120, 93>>,
    attributes |-> <<[name |-> "Shape", value |-> <<"Box">>]>>],
   [text |-> <<91, 115, 116, 121, 108, 101, 61, 98, 111, 108, 100, 59, 32, 115, 104, 97, 112, 101, 61, 111, 118, 97, 108, 93, 91, 115, 116, 121, 108, 101, 61, 100, 111, 116, 116, 101, 100, 93>>,
    attributes |-> <<[name |-> "Style", value |-> <<"Bold">>],
                     [name |-> "Shape", value |-> <<"Oval">>],
                     [name |-> "Style", value |-> <<"Dotted">>]>>]}

\* a  "a"  "b\"c"  --  ->  =  space  node  [style=dashed,bold]  [color=red]
StmtTokens ==
  {<<97>>, <<34, 97, 34>>, <<34, 98, 92, 34, 99, 34>>, <<45, 45>>, <<45, 62>>, <<61>>, <<32>>, <<110, 111, 100, 101>>,
   <<91, 115, 116, 121, 108, 101, 61, 100, 97, 115, 104, 101, 100, 44, 98, 111, 108, 100, 93>>, <<91, 99, 111, 108, 111, 114, 61, 114, 101, 100, 93>>}

RECURSIVE TokenSeqs(_, _)
TokenSeqs(tokens, n) ==
  IF n = 0 THEN {<<>>}
  ELSE TokenSeqs(tokens, n - 1)
         \cup {s \o t : s \in TokenSeqs(tokens, n - 1), t \in tokens}

\* id0 (op id1) ... (op idn), one space around each operator
RECURSIVE EdgeChains(_)
EdgeChains(n) ==
  IF n = 0 THEN {[text |-> t.text, chain |-> <<t.ident>>] : t \in IdTokens}
  ELSE {[text |-> c.text \o <<32>> \o op \o <<32>> \o t.text,
         chain |-> Append(c.chain, t.ident)] :
        c \in EdgeChains(n - 1), op \in EdgeOps, t \in IdTokens}

EdgeChainCases == UNION {EdgeChains(n) : n \in 1..MaxChain}

\* keyword, space, bracketed attribute list
AttrBlockCases ==
  {[text |-> AttributeKinds[k][1] \o <<32>> \o l.text,
    kind |-> AttributeKinds[k][2], attributes |-> l.attributes] :
   k \in 1..Len(AttributeKinds), l \in AttrLists}

\* identifier = identifier
DefinitionCases ==
  {[text |-> l.text \o <<32, 61, 32>> \o r.text, lhs |-> l.ident, rhs |-> r.ident] :
   l \in IdTokens, r \in IdTokens}

\* node [color=red]
TxtUnknownAttribute == <<110, 111, 100, 101, 32, 91, 99, 111, 108, 111, 114, 61, 114, 101, 100, 93>>
\* [color=red]
TxtUnknownAttrList == <<91, 99, 111, 108, 111, 114, 61, 114, 101, 100, 93>>

StmtInputs ==
  TokenSeqs(StmtTokens, MaxTokens)
    \cup {c.text : c \in EdgeChainCases}
    \cup {c.text : c \in AttrBlockCases}
    \cup {c.text : c \in DefinitionCases}

TxtAttrBlockGraph == <<115, 116, 114, 105, 99, 116, 32, 103, 114, 97, 112, 104, 32, 123, 32, 110, 111, 100, 101, 32, 91, 115, 116, 121, 108, 101, 61, 100, 97, 115, 104, 101, 100, 44, 98, 111, 108, 100, 93, 32, 125>>
TxtDefinitionGraph == <<103, 114, 97, 112, 104, 32, 123, 32, 97, 32, 61, 32, 98, 32, 125>>
TxtEdgeChainGraph == <<100, 105, 103, 114, 97, 112, 104, 32, 123, 32, 97, 32, 45, 62, 32, 98, 32, 45, 62, 32, 99, 32, 125>>
TxtTrailingGraph == <<103, 114, 97, 112, 104, 32, 123, 125, 32, 103, 97, 114, 98, 97, 103, 101>>
TxtGarbage == <<103, 97, 114, 98, 97, 103, 101>>
TxtOpenGraph == <<103, 114, 97, 112, 104, 32, 123>>
TxtStrict == <<115, 116, 114, 105, 99, 116>>
TxtQuotedEdgeGraph == <<103, 114, 97, 112, 104, 32, 123, 32, 34, 97, 34, 32, 45, 45, 32, 34, 98, 92, 34, 99, 34, 32, 125>>
\* graph { node [color=red] }
TxtUnknownAttributeGraph == <<103, 114, 97, 112, 104, 32, 123, 32, 110, 111, 100, 101, 32, 91, 99, 111, 108, 111, 114, 61, 114, 101, 100, 93, 32, 125>>

GraphTests ==
  {TxtAttrBlockGraph, TxtDefinitionGraph, TxtEdgeChainGraph, TxtTrailingGraph,
   TxtOpenGraph, TxtStrict, TxtQuotedEdgeGraph, TxtUnknownAttributeGraph}

\* [strict] [graph | digraph | foo] [{] body [}] trailer
GraphInputs ==
  {s \o k \o o \o b \o c \o t :
     s \in {<<>>, <<115, 116, 114, 105, 99, 116, 32>>},
     k \in {<<>>, <<103, 114, 97, 112, 104, 32>>, <<100, 105, 103, 114, 97, 112, 104, 32>>, <<102, 111, 111, 32>>},
     o \in {<<>>, <<123, 32>>},
     b \in TokenSeqs(StmtTokens, MaxBodyTokens),
     c \in {<<>>, <<125>>},
     t \in {<<>>, <<32>>, <<11>>, <<32, 103, 97, 114, 98, 97, 103, 101>>, <<103, 114, 97, 112, 104, 32, 123, 125>>}}
    \cup GraphTests

-----------------------------------------------------------------------------
(* The state machine: one rule is applied to one text *)

Init ==
  /\ input = <<>>
  /\ rule = "none"
  /\ res = Err(<<>>)

Apply(name, i, r) ==
  /\ input' = i
  /\ rule' = name
  /\ res' = r

StringIdent ==
  /\ rule = "none"
  /\ \E i \in LexInputs \cup LexTests : Apply("string_ident_parser", i, string_ident_parser(i))

NumIdent ==
  /\ rule = "none"
  /\ \E i \in LexInputs \cup LexTests : Apply("num_ident_parser", i, num_ident_parser(i))

QuoteStringFragment ==
  /\ rule = "none"
  /\ \E i \in LexInputs \cup LexTests :
    Apply("quote_string_fragment_parser", i, quote_string_fragment_parser(i))

QuoteStringIdent ==
  /\ rule = "none"
  /\ \E i \in LexInputs \cup LexTests :
    Apply("quote_string_ident_parser", i, quote_string_ident_parser(i))

Ident ==
  /\ rule = "none"
  /\ \E i \in LexInputs \cup LexTests : Apply("ident_parser", i, ident_parser(i))

AttributeRule ==
  /\ rule = "none"
  /\ \E i \in StmtInputs : Apply("attribute_parser", i, attribute_parser(i))

AttrList ==
  /\ rule = "none"
  /\ \E i \in StmtInputs : Apply("attr_list_parser", i, attr_list_parser(i))

\* one application of the rule many1 repeats in attr_list_parser
AttrGroup ==
  /\ rule = "none"
  /\ \E i \in StmtInputs : Apply("attr_group", i, attr_group(i))

\* one application of the rule many1 repeats in edge_statement_parser
EdgeRhs ==
  /\ rule = "none"
  /\ \E i \in StmtInputs : Apply("edge_rhs", i, edge_rhs(i))

EdgeStatement ==
  /\ rule = "none"
  /\ \E i \in StmtInputs : Apply("edge_statement_parser", i, edge_statement_parser(i))

NodeStatement ==
  /\ rule = "none"
  /\ \E i \in StmtInputs : Apply("node_statement_parser", i, node_statement_parser(i))

AttributeStatement ==
  /\ rule = "none"
  /\ \E i \in StmtInputs : Apply("attribute_statement_parser", i, attribute_statement_parser(i))

DefinitionStatement ==
  /\ rule = "none"
  /\ \E i \in StmtInputs : Apply("definition_statement_parser", i, definition_statement_parser(i))

Statement ==
  /\ rule = "none"
  /\ \E i \in StmtInputs : Apply("statement_parser", i, statement_parser(i))

GraphRule ==
  /\ rule = "none"
  /\ \E i \in GraphInputs : Apply("graph_parser", i, graph_parser(i))

ParseGraph ==
  /\ rule = "none"
  /\ \E i \in GraphInputs : Apply("parse_graph", i, parse_graph(i))

Next ==
  \/ StringIdent
  \/ NumIdent
  \/ QuoteStringFragment
  \/ QuoteStringIdent
  \/ Ident
  \/ AttributeRule
  \/ AttrList
  \/ AttrGroup
  \/ EdgeRhs
  \/ EdgeStatement
  \/ NodeStatement
  \/ AttributeStatement
  \/ DefinitionStatement
  \/ Statement
  \/ GraphRule
  \/ ParseGraph

Spec == Init /\ [][Next]_vars

-----------------------------------------------------------------------------
(* What the specification says of the results *)

\* position of the first double quote after the opening one that has no backslash
\* right before it; 0 when there is none
ClosingQuote(i) ==
  IF \E p \in 2..Len(i) : i[p] = 34 /\ i[p - 1] # 92
    THEN SetMin({p \in 2..Len(i) : i[p] = 34 /\ i[p - 1] # 92})
    ELSE 0

\* s with every \" replaced by "
RECURSIVE Unescape(_)
Unescape(s) ==
  IF s = <<>> THEN <<>>
  ELSE IF StartsWith(s, <<92, 34>>) THEN <<34>> \o Unescape(Drop(s, 2))
  ELSE <<Head(s)>> \o Unescape(Tail(s))

IsWordStart(c) == c \in (65..90) \cup (97..122) \cup {95} \cup (128..255)

IsWordChar(c) == IsWordStart(c) \/ c \in 48..57

\* length of the longest prefix of i made of word characters
WordLen(i) ==
  CHOOSE n \in 0..Len(i) :
    /\ \A k \in 1..n : IsWordChar(i[k])
    /\ n < Len(i) => ~IsWordChar(i[n + 1])

IsBlank(s) == \A k \in 1..Len(s) : s[k] \in WhiteSpaceChars

HasNomKind(errors, kind) ==
  \E k \in 1..Len(errors) : errors[k].variant = "Nom" /\ errors[k].kind = kind

IsStatement(r, type) == r.variant = "Ok" /\ r.out.type = type

\* C1: the statement rule turns `graph`/`node`/`edge` followed by a well-formed
\* bracketed attribute list into an AttributeStatement of the matching kind carrying
\* those attributes, and parse_graph on `strict graph { node [style=dashed,bold] }`
\* returns strict = true, kind Undirected and exactly one AttributeStatement of kind
\* Node holding one Style attribute with values [Dashed, Bold]
C1_AttributeBlock ==
  /\ rule = "statement_parser" =>
       \A c \in AttrBlockCases : input = c.text =>
         /\ IsStatement(res, "Attribute")
         /\ res.out.stmt.kind = c.kind
         /\ res.out.stmt.attributes = c.attributes
  /\ (rule = "parse_graph" /\ input = TxtAttrBlockGraph) =>
       /\ res.kind = "Graph"
       /\ res.graph.strict
       /\ res.graph.kind = "Undirected"
       /\ Len(res.graph.statements) = 1
       /\ res.graph.statements[1].type = "Attribute"
       /\ res.graph.statements[1].stmt.kind = "Node"
       /\ res.graph.statements[1].stmt.attributes
            = <<[name |-> "Style", value |-> <<"Dashed", "Bold">>]>>

\* C2: the statement rule consumes all of `identifier = identifier` and produces a
\* DefinitionStatement with lhs the first and rhs the second identifier, and
\* parse_graph on `graph { a = b }` succeeds with one DefinitionStatement {a, b}
C2_Definition ==
  /\ rule = "statement_parser" =>
       \A c \in DefinitionCases : input = c.text =>
         /\ IsStatement(res, "Definition")
         /\ res.rest = <<>>
         /\ res.out.stmt.lhs = c.lhs
         /\ res.out.stmt.rhs = c.rhs
  /\ (rule = "parse_graph" /\ input = TxtDefinitionGraph) =>
       /\ res.kind = "Graph"
       /\ Len(res.graph.statements) = 1
       /\ res.graph.statements[1].type = "Definition"
       /\ res.graph.statements[1].stmt.lhs = <<97>>
       /\ res.graph.statements[1].stmt.rhs = <<98>>

\* C3: on a text that starts with a double quote, the quoted-string rule ends the
\* string at the first later double quote not preceded by a backslash: the remainder
\* starts just past it and the text is what lies between the two quotes with every
\* \" replaced by ", whatever follows the closing quote
C3_QuotedString ==
  (rule = "quote_string_ident_parser" /\ input # <<>> /\ input[1] = 34
     /\ ClosingQuote(input) # 0) =>
    /\ res.variant = "Ok"
    /\ res.rest = Drop(input, ClosingQuote(input))
    /\ res.out = Unescape(SubSeq(input, 2, ClosingQuote(input) - 1))

\* C4: when the text ends while the graph grammar still requires more characters
\* (`graph {`, `strict`, the empty text), parse_graph returns UnexpectedEof
C4_UnexpectedEof ==
  (rule = "parse_graph" /\ input \in {TxtOpenGraph, TxtStrict, <<>>}) =>
    res.kind = "UnexpectedEof"

\* C5: when none of the three identifier forms matches, ident_parser fails with a
\* recoverable error whose chain has at least one entry of kind Tag
C5_IdentErrorHasTag ==
  (rule = "ident_parser" /\ res.variant # "Ok") =>
    /\ res.variant = "Error"
    /\ HasNomKind(res.errors, "Tag")

\* C6: when parse_graph returns ParseError because an ordered choice failed, the
\* error holds an entry for every alternative tried at the position of the failure
\* (here the two graph-kind keywords), not only the entries of the last one
C6_EveryAlternativeReported ==
  (rule = "parse_graph" /\ res.kind = "ParseError" /\ HasNomKind(res.errors, "Alt")) =>
    LET last == res.errors[Len(res.errors)]
        tried == {k \in 1..Len(res.errors) :
                    res.errors[k].at = last.at /\ res.errors[k] # last}
    IN Cardinality(tried) >= Len(GraphKinds)

\* C7: when the graph grammar matches a complete graph, parse_graph returns the
\* Graph exactly when the text left after the closing brace is empty or whitespace
\* only, and otherwise returns UnexpectedInput carrying that remainder
\* (`graph {} garbage` gives `garbage`), never a Graph
C7_TrailingInput ==
  rule = "parse_graph" =>
    LET g == graph_parser(input)
    IN /\ g.variant = "Ok" =>
            /\ res.kind \in {"Graph", "UnexpectedInput"}
            /\ res.kind = "Graph" <=> IsBlank(g.rest)
            /\ res.kind = "Graph" => res.graph = g.out
            /\ res.kind = "UnexpectedInput" => res.rest = g.rest
       /\ input = TxtTrailingGraph =>
            /\ res.kind = "UnexpectedInput"
            /\ res.rest = TxtGarbage

C7_Witness ==
  /\ rule = "parse_graph"
  /\ input = TxtTrailingGraph
  /\ graph_parser(input).variant = "Ok"
  /\ res.kind = "UnexpectedInput"

\* C8: the statement rule turns id0 (op id1) ... (op idn), n >= 1, each op `--` or
\* `->`, into one EdgeStatement whose chain is [id0, ..., idn] in source order, never
\* a NodeStatement; every EdgeStatement of a returned Graph has a chain of at least
\* two identifiers; `digraph { a -> b -> c }` yields kind Directed, strict = false
\* and one EdgeStatement with chain [a, b, c] and no attributes
C8_EdgeChain ==
  /\ rule = "statement_parser" =>
       \A c \in EdgeChainCases : input = c.text =>
         /\ IsStatement(res, "Edge")
         /\ res.out.stmt.list = c.chain
  /\ (rule = "parse_graph" /\ res.kind = "Graph") =>
       \A k \in 1..Len(res.graph.statements) :
         res.graph.statements[k].type = "Edge" =>
           Len(res.graph.statements[k].stmt.list) >= 2
  /\ (rule = "parse_graph" /\ input = TxtEdgeChainGraph) =>
       /\ res.kind = "Graph"
       /\ res.graph.kind = "Directed"
       /\ ~res.graph.strict
       /\ Len(res.graph.statements) = 1
       /\ res.graph.statements[1].type = "Edge"
       /\ res.graph.statements[1].stmt.list = <<<<97>>, <<98>>, <<99>>>>
       /\ res.graph.statements[1].stmt.attributes = <<>>

\* C9: on a text whose first character is an ASCII letter, an underscore or in
\* \200-\377, string_ident_parser and ident_parser succeed with exactly the longest
\* prefix of letters, digits, underscores and \200-\377 characters and leave the rest
\* as the remainder (`no-kebab-case` gives `no` and `-kebab-case`)
C9_BareWord ==
  (rule \in {"string_ident_parser", "ident_parser"} /\ input # <<>>
     /\ IsWordStart(input[1])) =>
    /\ res.variant = "Ok"
    /\ res.out = Take(input, WordLen(input))
    /\ res.rest = Drop(input, WordLen(input))
    /\ input = TxtNoKebabCase => (res.out = TxtNo /\ res.rest = TxtKebabRest)

C9_Witness ==
  /\ rule = "ident_parser"
  /\ input = TxtNoKebabCase
  /\ res.out = TxtNo
  /\ res.rest = TxtKebabRest

\* C10: on a text that starts with a double quote and has no later double quote
\* without a backslash right before it, the quoted-string rule fails
C10_Unterminated ==
  (rule = "quote_string_ident_parser" /\ input # <<>> /\ input[1] = 34
     /\ ClosingQuote(input) = 0) =>
    res.variant # "Ok"

C10_Witness ==
  /\ rule = "quote_string_ident_parser"
  /\ input = TxtMissingEndingQuote
  /\ ClosingQuote(input) = 0
  /\ res.variant = "Error"

EndsWith(s, t) == Len(s) >= Len(t) /\ Drop(s, Len(s) - Len(t)) = t

Contains(s, t) == \E k \in 0..Len(s) : StartsWith(Drop(s, k), t)

RepeatedRules ==
  {"quote_string_fragment_parser", "attribute_parser", "attr_group", "edge_rhs",
   "statement_parser"}

\* C12: every successful application of a repeated rule (quoted-string fragment,
\* attribute, bracketed attribute group, (edge operator, identifier) pair,
\* statement) leaves a remainder shorter than its input, no repetition stops on
\* the no-progress error of many0 / many1, and parse_graph returns a Graph or
\* one of the three classified errors
C12_Progress ==
  /\ (rule \in RepeatedRules /\ res.variant = "Ok") => Len(res.rest) < Len(input)
  /\ (rule \notin {"none", "parse_graph"} /\ res.variant # "Ok") =>
       /\ ~HasNomKind(res.errors, "Many0")
       /\ res.errors # from_error_kind(input, "Many1")
  /\ rule = "parse_graph" =>
       /\ res.kind \in {"Graph", "UnexpectedEof", "UnexpectedInput", "ParseError"}
       /\ ~HasNomKind(res.errors, "Many0")

C12_Witness ==
  /\ rule = "quote_string_fragment_parser"
  /\ input = <<97, 34>>
  /\ res.variant = "Ok"
  /\ Len(res.rest) = Len(input) - 1


====
